---- MODULE Spec2Model ----
(***************************************************************************)
(* Dozer Duty: the level session (LevelComponent), its sprites and the     *)
(* level validator, as a state machine.                                    *)
(*                                                                         *)
(* Level positions are grid cells.  A sprite position is kept in eighths   *)
(* of a cell: with frame deltas that are multiples of 50 ms the eased      *)
(* interpolation of a 200 ms move takes the values 1/8, 4/8, 7/8, 8/8,     *)
(* all exact in binary floating point, so the integer arithmetic below is  *)
(* the arithmetic of the code.                                             *)
(***************************************************************************)
EXTENDS Integers, Sequences, FiniteSets, TLC

VARIABLES
    initialized,          \* ngOnInit has run
    level,                \* LevelComponent.level (Undefined before the first load)
    currentLevelNumber,   \* LevelComponent.currentLevelNumber
    storage,              \* localStorage['dozer-duty-current-level']
    inflight,             \* level number -> number of http requests in flight
    loopRunning,          \* animationFrameId is set: the game loop runs
    bulldozerSprite,      \* LevelComponent.bulldozerSprite
    crateSprites,         \* LevelComponent.crateSprites
    levelCompleteSprite,  \* the overlay sprite exists
    isLevelComplete,      \* LevelComponent.isLevelComplete
    moveCount,            \* LevelComponent.moveCount
    lastMove,             \* LevelComponent.lastMove
    timers,               \* pending setTimeout(checkLevelCompletion, 250) callbacks
    completions,          \* calls of onLevelComplete since the last initializeLevel
    candidate,            \* the level handed to validateLevel (validator runs)
    verdict,              \* what validateLevel did with it
    hist                  \* observation only: the last handler that wrote to the
                          \* session, the key of a move that turned the
                          \* bulldozer, the positions before the last accepted move

vars == <<initialized, level, currentLevelNumber, storage, inflight, loopRunning,
          bulldozerSprite, crateSprites, levelCompleteSprite, isLevelComplete,
          moveCount, lastMove, timers, completions, candidate, verdict, hist>>

sessionVars == <<initialized, level, currentLevelNumber, storage, inflight,
                 loopRunning, bulldozerSprite, crateSprites, levelCompleteSprite,
                 isLevelComplete, moveCount, lastMove, timers, completions, hist>>

-----------------------------------------------------------------------------
(* Bounds of the model *)

\* accepted moves per level load
MaxMoves == 2
\* completion timers pending at once
MaxTimers == 2
\* level requests in flight at once
MaxInFlight == 2

-----------------------------------------------------------------------------
(* Values *)

Undefined == [undefined |-> TRUE]

\* enum Direction
Up == 0
Right == 90
Down == 180
Left == 270
Directions == {Up, Right, Down, Left}

\* color: string | null
Null == "null"
Red == "#FF0000"
Blue == "#0000FF"
\* the colours in the order JavaScript's default sort gives them (UTF-16 code units)
ColorOrder ==
    <<Blue, "#00FF00", "#00FFFF", "#800080", Red, "#FF00FF", "#FFA500", "#FFFF00">>

\* BulldozerSprite.moveDuration, CrateSprite.moveDuration
moveDuration == 200
\* the timestamps' differences the game loop sees
DeltaTimes == {50, 100, 200}

Pos(px, py) == [x |-> px, y |-> py]

ArrowKeys == {"ArrowUp", "ArrowDown", "ArrowLeft", "ArrowRight"}
\* a key handleMovement does not know
OtherKey == "Enter"
Keys == ArrowKeys \cup {OtherKey}

-----------------------------------------------------------------------------
(* The level store: /levels/level-<n>.json *)

\* a 4 x 3 field: the red crate stands between the start and its goal, the
\* neutral crate below it has a wall on its right
Level1 ==
    [number |-> 1, width |-> 4, height |-> 3,
     walls |-> <<Pos(0, 0), Pos(3, 1)>>,
     crates |-> <<[position |-> Pos(2, 0), color |-> Red],
                  [position |-> Pos(2, 1), color |-> Null]>>,
     playerStartPosition |-> Pos(1, 0),
     endPositions |-> <<[position |-> Pos(3, 0), color |-> Red]>>]

\* one row: a neutral crate in front of a red crate that stands on its goal
Level2 ==
    [number |-> 2, width |-> 3, height |-> 1,
     walls |-> <<>>,
     crates |-> <<[position |-> Pos(1, 0), color |-> Null],
                  [position |-> Pos(2, 0), color |-> Red]>>,
     playerStartPosition |-> Pos(0, 0),
     endPositions |-> <<[position |-> Pos(2, 0), color |-> Red]>>]

\* one row, no end positions, one neutral crate
Level3 ==
    [number |-> 3, width |-> 3, height |-> 1,
     walls |-> <<>>,
     crates |-> <<[position |-> Pos(1, 0), color |-> Null]>>,
     playerStartPosition |-> Pos(0, 0),
     endPositions |-> <<>>]

\* a level file validateLevel throws on: an end position and no coloured crate
Level4 ==
    [number |-> 4, width |-> 4, height |-> 1,
     walls |-> <<>>,
     crates |-> <<[position |-> Pos(2, 0), color |-> Null]>>,
     playerStartPosition |-> Pos(0, 0),
     endPositions |-> <<[position |-> Pos(3, 0), color |-> Red]>>]

LevelStore == <<Level1, Level2, Level3, Level4>>
\* level numbers a request can name; the last one has no file
LevelNumbers == 1 .. (Len(LevelStore) + 1)
\* what localStorage holds when the component starts
SavedLevels == {Undefined} \cup {[value |-> n] : n \in LevelNumbers}

-----------------------------------------------------------------------------
(* Sprites (BulldozerSprite, CrateSprite) *)

\* a level cell as a sprite position (eighths of a cell)
ToSprite(pos) == [x |-> 8 * pos.x, y |-> 8 * pos.y]

\* Math.round of a sprite coordinate: to the nearest cell, halves upwards
Round(v) == (v + 4) \div 8

\* the cell a sprite position rounds to
RoundPos(position) == Pos(Round(position.x), Round(position.y))

\* new BulldozerSprite(position, direction)
NewBulldozerSprite(pos, dir) ==
    [position |-> ToSprite(pos), direction |-> dir,
     isMoving |-> FALSE, moveProgress |-> 0,
     moveStartPos |-> ToSprite(pos), moveEndPos |-> ToSprite(pos)]

\* new CrateSprite(position, color)
NewCrateSprite(pos, col) ==
    [position |-> ToSprite(pos), color |-> col,
     isMoving |-> FALSE, moveProgress |-> 0,
     moveStartPos |-> ToSprite(pos), moveEndPos |-> ToSprite(pos)]

setDirection(sprite, dir) == [sprite EXCEPT !.direction = dir]

getDirection(sprite) == sprite.direction

getColor(sprite) == sprite.color

\* isAnimating that never reports a running animation
isAnimating_Never(sprite) == FALSE

isAnimating(sprite) == sprite.isMoving

\* startMoveTo(targetPosition): ignored while the sprite is moving
startMoveTo(sprite, targetPos) ==
    IF ~sprite.isMoving
    THEN [sprite EXCEPT !.isMoving = TRUE, !.moveProgress = 0,
                        !.moveStartPos = sprite.position,
                        !.moveEndPos = ToSprite(targetPos)]
    ELSE sprite

\* easeInOutQuad(t), t = ms / moveDuration, the result in eighths
easeInOutQuad(ms) ==
    LET k == ms \div 50
    IN  IF 2 * ms < moveDuration THEN k * k ELSE (8 * k - k * k) - 8

\* moveStartPos + (moveEndPos - moveStartPos) * t
Interpolate(from, to, t8) == from + ((to - from) * t8) \div 8

\* update that ends the animation without putting the sprite on moveEndPos
update_NoSnap(sprite, deltaTime) ==
    IF sprite.isMoving
    THEN LET progress == sprite.moveProgress + deltaTime
         IN  IF progress >= moveDuration
             THEN [sprite EXCEPT !.moveProgress = moveDuration,
                                 !.isMoving = FALSE]
             ELSE [sprite EXCEPT
                     !.moveProgress = progress,
                     !.position =
                         [x |-> Interpolate(sprite.moveStartPos.x, sprite.moveEndPos.x,
                                            easeInOutQuad(progress)),
                          y |-> Interpolate(sprite.moveStartPos.y, sprite.moveEndPos.y,
                                            easeInOutQuad(progress))]]
    ELSE sprite

\* update(deltaTime): the movement part; moveProgress is kept in milliseconds
update(sprite, deltaTime) ==
    IF sprite.isMoving
    THEN LET progress == sprite.moveProgress + deltaTime
         IN  IF progress >= moveDuration
             THEN [sprite EXCEPT !.moveProgress = moveDuration,
                                 !.isMoving = FALSE,
                                 !.position = sprite.moveEndPos]
             ELSE [sprite EXCEPT
                     !.moveProgress = progress,
                     !.position =
                         [x |-> Interpolate(sprite.moveStartPos.x, sprite.moveEndPos.x,
                                            easeInOutQuad(progress)),
                          y |-> Interpolate(sprite.moveStartPos.y, sprite.moveEndPos.y,
                                            easeInOutQuad(progress))]]
    ELSE sprite

\* startPushAttempt(deltaX, deltaY): the bump shown on a blocked move.  The
\* sprite class of this revision does not hold it; a blocked move changes
\* nothing but the facing, so it leaves position and movement alone.
startPushAttempt(sprite, deltaX, deltaY) == sprite

-----------------------------------------------------------------------------
(* Occupancy queries *)

\* LevelComponent.isWall(position)
isWall(lvl, position) ==
    IF lvl = Undefined THEN FALSE
    ELSE \E i \in 1 .. Len(lvl.walls) :
            lvl.walls[i].x = position.x /\ lvl.walls[i].y = position.y

\* the bounds test of handleMovement, negated
InBounds(lvl, position) ==
    ~(position.x < 0 \/ position.x >= lvl.width \/
      position.y < 0 \/ position.y >= lvl.height)

\* crateSprites.find(crate => round(crate.position) = position): the index
\* (from 1) of the first such sprite, 0 for undefined
FindCrateAt(sprites, position) ==
    LET hits == {i \in 1 .. Len(sprites) :
                    /\ Round(sprites[i].position.x) = position.x
                    /\ Round(sprites[i].position.y) = position.y}
    IN  IF hits = {} THEN 0 ELSE CHOOSE i \in hits : \A j \in hits : i <= j

\* crateSprites.find(crate => crate !== crateAtTarget && round(...) = position)
FindAnotherCrateAt(sprites, crateAtTarget, position) ==
    LET hits == {i \in 1 .. Len(sprites) :
                    /\ i # crateAtTarget
                    /\ Round(sprites[i].position.x) = position.x
                    /\ Round(sprites[i].position.y) = position.y}
    IN  IF hits = {} THEN 0 ELSE CHOOSE i \in hits : \A j \in hits : i <= j

\* crateSprites.some(crate => crate.isAnimating())
AnyCrateAnimating(sprites) == \E i \in 1 .. Len(sprites) : isAnimating(sprites[i])

\* the switch of handleMovement
DirectionOf(key) ==
    CASE key = "ArrowUp" -> Up
      [] key = "ArrowDown" -> Down
      [] key = "ArrowLeft" -> Left
      [] key = "ArrowRight" -> Right

DeltaX(key) ==
    CASE key = "ArrowLeft" -> -1
      [] key = "ArrowRight" -> 1
      [] OTHER -> 0

DeltaY(key) ==
    CASE key = "ArrowUp" -> -1
      [] key = "ArrowDown" -> 1
      [] OTHER -> 0

-----------------------------------------------------------------------------
(* validateLevel (level.model.ts) *)

\* level.crates.filter(crate => crate.color !== null)
ColoredCrates(lvl) == SelectSeq(lvl.crates, LAMBDA crate : crate.color # Null)

\* the place of a colour in JavaScript's string order
ColorRank(c) == CHOOSE i \in 1 .. Len(ColorOrder) : ColorOrder[i] = c

RECURSIVE InsertSorted(_, _)
InsertSorted(c, sorted) ==
    IF sorted = <<>> THEN <<c>>
    ELSE IF ColorRank(c) <= ColorRank(Head(sorted)) THEN <<c>> \o sorted
    ELSE <<Head(sorted)>> \o InsertSorted(c, Tail(sorted))

\* Array.prototype.sort() of an array of colour strings
RECURSIVE SortColors(_)
SortColors(items) ==
    IF items = <<>> THEN <<>>
    ELSE InsertSorted(Head(items), SortColors(Tail(items)))

\* JSON.stringify of an array of strings, as its sequence of tokens
RECURSIVE StringifyItems(_)
StringifyItems(items) ==
    IF items = <<>> THEN <<>>
    ELSE IF Len(items) = 1 THEN <<"\"", items[1], "\"">>
    ELSE <<"\"", items[1], "\"", ",">> \o StringifyItems(Tail(items))

JSONstringify(items) == <<"[">> \o StringifyItems(items) \o <<"]">>

\* the test of validatePosition
OutOfField(lvl, pos) ==
    pos.x < 0 \/ pos.x >= lvl.width \/ pos.y < 0 \/ pos.y >= lvl.height

\* PositionsToValidate with the crates visited before the walls
PositionsToValidate_CratesFirst(lvl) ==
    <<[name |-> "player start", index |-> 0, pos |-> lvl.playerStartPosition]>>
    \o [i \in 1 .. Len(lvl.crates) |->
            [name |-> "crate", index |-> i - 1, pos |-> lvl.crates[i].position]]
    \o [i \in 1 .. Len(lvl.walls) |->
            [name |-> "wall", index |-> i - 1, pos |-> lvl.walls[i]]]
    \o [i \in 1 .. Len(lvl.endPositions) |->
            [name |-> "end position", index |-> i - 1,
             pos |-> lvl.endPositions[i].position]]

\* the positions validateLevel visits, in its order, each with its name
PositionsToValidate(lvl) ==
    <<[name |-> "player start", index |-> 0, pos |-> lvl.playerStartPosition]>>
    \o [i \in 1 .. Len(lvl.walls) |->
            [name |-> "wall", index |-> i - 1, pos |-> lvl.walls[i]]]
    \o [i \in 1 .. Len(lvl.crates) |->
            [name |-> "crate", index |-> i - 1, pos |-> lvl.crates[i].position]]
    \o [i \in 1 .. Len(lvl.endPositions) |->
            [name |-> "end position", index |-> i - 1,
             pos |-> lvl.endPositions[i].position]]

Thrown(what) == [ok |-> FALSE, error |-> what]

\* WidthOutOfRange with the upper limit off by one
WidthOutOfRange_OffByOne(lvl) == lvl.width < 1 \/ lvl.width >= 32

\* level.width < 1 || level.width > 32
WidthOutOfRange(lvl) == lvl.width < 1 \/ lvl.width > 32

\* level.height < 1 || level.height > 32
HeightOutOfRange(lvl) == lvl.height < 1 \/ lvl.height > 32

\* validateLevel(level): [ok |-> TRUE] for `return true`, else the error thrown
validateLevel(lvl) ==
    IF WidthOutOfRange(lvl) THEN Thrown(<<"width">>)
    ELSE IF HeightOutOfRange(lvl) THEN Thrown(<<"height">>)
    ELSE IF Len(lvl.endPositions) # Len(ColoredCrates(lvl)) THEN Thrown(<<"count">>)
    ELSE
    LET crateColors ==
            SortColors([i \in 1 .. Len(ColoredCrates(lvl)) |-> ColoredCrates(lvl)[i].color])
        endPositionColors ==
            SortColors([i \in 1 .. Len(lvl.endPositions) |-> lvl.endPositions[i].color])
        visited == PositionsToValidate(lvl)
        bad == {i \in 1 .. Len(visited) : OutOfField(lvl, visited[i].pos)}
    IN  IF JSONstringify(crateColors) # JSONstringify(endPositionColors)
        THEN Thrown(<<"colors">>)
        ELSE IF bad # {}
        THEN LET first == CHOOSE i \in bad : \A j \in bad : i <= j
             IN  Thrown(<<"position", visited[first].name, visited[first].index>>)
        ELSE [ok |-> TRUE]

-----------------------------------------------------------------------------
(* The session: LevelComponent *)

\* what hist remembers of the positions before an accepted move
Snapshot ==
    [pos |-> RoundPos(bulldozerSprite.position),
     dir |-> bulldozerSprite.direction,
     crates |-> [i \in 1 .. Len(crateSprites) |-> crateSprites[i].position]]

Observed(what, key, pre) == [last |-> what, key |-> key, pre |-> pre]

RECURSIVE SumUpTo(_, _)
SumUpTo(f, n) == IF n = 0 THEN 0 ELSE f[n] + SumUpTo(f, n - 1)

\* the level requests in flight
InFlightTotal == SumUpTo(inflight, Len(LevelStore) + 1)

Settled ==
    /\ bulldozerSprite # Undefined
    /\ ~isAnimating(bulldozerSprite)
    /\ ~AnyCrateAnimating(crateSprites)

\* the state after construction (the field initialisers of LevelComponent)
Init ==
    /\ initialized = FALSE
    /\ level = Undefined
    /\ currentLevelNumber = 1
    /\ storage \in SavedLevels
    /\ inflight = [n \in LevelNumbers |-> 0]
    /\ loopRunning = FALSE
    /\ bulldozerSprite = Undefined
    /\ crateSprites = <<>>
    /\ levelCompleteSprite = FALSE
    /\ isLevelComplete = FALSE
    /\ moveCount = 0
    /\ lastMove = Undefined
    /\ timers = 0
    /\ completions = 0
    /\ candidate = Undefined
    /\ verdict = Undefined
    /\ hist = [last |-> "new", key |-> "", pre |-> Undefined]

\* loadLevel(levelNumber?): store the number, send the request
loadLevel(levelNumber) ==
    /\ InFlightTotal < MaxInFlight
    /\ currentLevelNumber' = levelNumber
    /\ storage' = [value |-> levelNumber]
    /\ inflight' = [inflight EXCEPT ![levelNumber] = @ + 1]

\* ngOnInit: read the saved level number, load that level
NgOnInit ==
    /\ ~initialized
    /\ initialized' = TRUE
    /\ loadLevel(IF storage # Undefined THEN storage.value ELSE currentLevelNumber)
    /\ UNCHANGED hist
    /\ UNCHANGED <<level, loopRunning, bulldozerSprite, crateSprites,
                   levelCompleteSprite, isLevelComplete, moveCount, lastMove,
                   timers, completions, candidate, verdict>>

\* key R: reloadLevel
ReloadLevel ==
    /\ initialized
    /\ loadLevel(currentLevelNumber)
    /\ UNCHANGED hist
    /\ UNCHANGED <<initialized, level, loopRunning, bulldozerSprite, crateSprites,
                   levelCompleteSprite, isLevelComplete, moveCount, lastMove,
                   timers, completions, candidate, verdict>>

\* key N: loadNextLevel, only while the level is complete
LoadNextLevel ==
    /\ initialized
    /\ isLevelComplete
    /\ currentLevelNumber + 1 \in LevelNumbers
    /\ loadLevel(currentLevelNumber + 1)
    /\ UNCHANGED hist
    /\ UNCHANGED <<initialized, level, loopRunning, bulldozerSprite, crateSprites,
                   levelCompleteSprite, isLevelComplete, moveCount, lastMove,
                   timers, completions, candidate, verdict>>

\* InitialCrateSprites with the constructor's default colour
InitialCrateSprites_Colourless(lvl) ==
    [i \in 1 .. Len(lvl.crates) |-> NewCrateSprite(lvl.crates[i].position, Null)]

\* the crate sprites initializeLevel builds
InitialCrateSprites(lvl) ==
    [i \in 1 .. Len(lvl.crates) |->
        NewCrateSprite(lvl.crates[i].position, lvl.crates[i].color)]

\* the response of a level request: level = the file, then initializeLevel,
\* then the game loop is started if it does not run
LoadResponse(n) ==
    /\ inflight[n] > 0
    /\ n \in DOMAIN LevelStore
    /\ inflight' = [inflight EXCEPT ![n] = @ - 1]
    /\ level' = LevelStore[n]
    /\ isLevelComplete' = FALSE
    /\ levelCompleteSprite' = FALSE
    /\ moveCount' = 0
    /\ bulldozerSprite' = NewBulldozerSprite(level'.playerStartPosition, Down)
    /\ crateSprites' = InitialCrateSprites(level')
    /\ loopRunning' = TRUE
    /\ completions' = 0
    /\ hist' = Observed("load", "", Undefined)
    /\ UNCHANGED <<initialized, currentLevelNumber, storage, lastMove, timers,
                   candidate, verdict>>

\* the request fails (no such file, or the network): console.error only
LoadError(n) ==
    /\ inflight[n] > 0
    /\ inflight' = [inflight EXCEPT ![n] = @ - 1]
    /\ UNCHANGED hist
    /\ UNCHANGED <<initialized, level, currentLevelNumber, storage, loopRunning,
                   bulldozerSprite, crateSprites, levelCompleteSprite,
                   isLevelComplete, moveCount, lastMove, timers, completions,
                   candidate, verdict>>

\* one turn of the game loop: update(deltaTime) on every sprite
Frame(deltaTime) ==
    /\ loopRunning
    /\ bulldozerSprite' = IF bulldozerSprite # Undefined
                          THEN update(bulldozerSprite, deltaTime)
                          ELSE bulldozerSprite
    /\ crateSprites' = [i \in 1 .. Len(crateSprites) |-> update(crateSprites[i], deltaTime)]
    /\ UNCHANGED <<initialized, level, currentLevelNumber, storage, inflight,
                   loopRunning, levelCompleteSprite, isLevelComplete, moveCount,
                   lastMove, timers, completions, candidate, verdict, hist>>

\* TargetPos that stays on the current cell
TargetPos_Stays(currentPos, key) == currentPos

\* targetPos = currentPos + (deltaX, deltaY)
TargetPos(currentPos, key) ==
    Pos(currentPos.x + DeltaX(key), currentPos.y + DeltaY(key))

\* BulldozerBlocked without the wall test
BulldozerBlocked_NoWallTest(lvl, targetPos) ==
    targetPos.x < 0 \/ targetPos.x >= lvl.width \/
    targetPos.y < 0 \/ targetPos.y >= lvl.height

\* the two tests that stop the bulldozer: out of bounds, a wall
BulldozerBlocked(lvl, targetPos) ==
    IF targetPos.x < 0 \/ targetPos.x >= lvl.width \/
       targetPos.y < 0 \/ targetPos.y >= lvl.height
    THEN TRUE
    ELSE isWall(lvl, targetPos)

\* PushBlocked without the test for another crate
PushBlocked_NoCrateTest(lvl, sprites, crateAtTarget, crateTargetPos) ==
    IF crateTargetPos.x < 0 \/ crateTargetPos.x >= lvl.width \/
       crateTargetPos.y < 0 \/ crateTargetPos.y >= lvl.height
    THEN TRUE
    ELSE isWall(lvl, crateTargetPos)

\* the three tests that stop a push: out of bounds, a wall, another crate
PushBlocked(lvl, sprites, crateAtTarget, crateTargetPos) ==
    IF crateTargetPos.x < 0 \/ crateTargetPos.x >= lvl.width \/
       crateTargetPos.y < 0 \/ crateTargetPos.y >= lvl.height
    THEN TRUE
    ELSE IF isWall(lvl, crateTargetPos) THEN TRUE
    ELSE FindAnotherCrateAt(sprites, crateAtTarget, crateTargetPos) # 0

\* PushCrate moving the sprite after the one found
PushCrate_WrongSprite(sprites, crateAtTarget, crateTargetPos) ==
    [sprites EXCEPT ![(crateAtTarget % Len(sprites)) + 1] = startMoveTo(@, crateTargetPos)]

\* crateAtTarget.startMoveTo(crateTargetPos)
PushCrate(sprites, crateAtTarget, crateTargetPos) ==
    [sprites EXCEPT ![crateAtTarget] = startMoveTo(@, crateTargetPos)]

\* this.lastMove = {...} with the crate: crateIndex is indexOf (from 0)
LastMoveWithCrate(previousBulldozerPos, previousBulldozerDirection, sprites, crateAtTarget) ==
    [bulldozerPos |-> previousBulldozerPos,
     bulldozerDirection |-> previousBulldozerDirection,
     cratePos |-> RoundPos(sprites[crateAtTarget].position),
     crateIndex |-> crateAtTarget - 1]

\* LastMoveWithoutCrate that fills the crate fields all the same
LastMoveWithoutCrate_CrateFields(previousBulldozerPos, previousBulldozerDirection) ==
    [bulldozerPos |-> previousBulldozerPos,
     bulldozerDirection |-> previousBulldozerDirection,
     cratePos |-> previousBulldozerPos,
     crateIndex |-> 0]

\* this.lastMove = {...} without a crate
LastMoveWithoutCrate(previousBulldozerPos, previousBulldozerDirection) ==
    [bulldozerPos |-> previousBulldozerPos,
     bulldozerDirection |-> previousBulldozerDirection]

\* Rejected that turns the bulldozer all the same
Rejected_Turns ==
    /\ UNCHANGED hist
    /\ bulldozerSprite' = IF bulldozerSprite = Undefined THEN bulldozerSprite
                          ELSE setDirection(bulldozerSprite, Up)
    /\ UNCHANGED <<crateSprites, lastMove, moveCount, timers>>

\* Rejected that counts the request as a move
Rejected_Counted ==
    /\ UNCHANGED hist
    /\ moveCount' = IF moveCount < MaxMoves THEN moveCount + 1 ELSE moveCount
    /\ UNCHANGED <<bulldozerSprite, crateSprites, lastMove, timers>>

\* a return of handleMovement before anything is written
Rejected ==
    /\ UNCHANGED hist
    /\ UNCHANGED <<bulldozerSprite, crateSprites, lastMove, moveCount, timers>>

\* Blocked that counts the attempt as a move
Blocked_Counted(turned, key) ==
    /\ bulldozerSprite' = startPushAttempt(turned, DeltaX(key), DeltaY(key))
    /\ hist' = Observed("blocked", key, Undefined)
    /\ moveCount' = IF moveCount < MaxMoves THEN moveCount + 1 ELSE moveCount
    /\ UNCHANGED <<crateSprites, lastMove, timers>>

\* a blocked move: the bulldozer is turned and bumps, nothing else is written
Blocked(turned, key) ==
    /\ bulldozerSprite' = startPushAttempt(turned, DeltaX(key), DeltaY(key))
    /\ hist' = Observed("blocked", key, Undefined)
    /\ UNCHANGED <<crateSprites, lastMove, moveCount, timers>>

\* the end of an accepted move: the bulldozer starts moving, the counter goes
\* up, the completion check is scheduled
Accepted(what, turned, targetPos, key) ==
    /\ moveCount < MaxMoves
    /\ timers < MaxTimers
    /\ bulldozerSprite' = startMoveTo(turned, targetPos)
    /\ moveCount' = moveCount + 1
    /\ timers' = timers + 1
    /\ hist' = Observed(what, key, Snapshot)

\* handleMovement(key)
HandleMovement(key) ==
    /\ initialized
    /\ IF bulldozerSprite = Undefined \/ level = Undefined
       THEN Rejected
       ELSE IF isLevelComplete THEN Rejected
       ELSE IF isAnimating(bulldozerSprite) THEN Rejected
       ELSE IF AnyCrateAnimating(crateSprites) THEN Rejected
       ELSE IF key \notin ArrowKeys THEN Rejected
       ELSE
       LET turned == setDirection(bulldozerSprite, DirectionOf(key))
           currentPos == RoundPos(turned.position)
           targetPos == TargetPos(currentPos, key)
           previousBulldozerPos == currentPos
           previousBulldozerDirection == getDirection(turned)
           crateAtTarget == FindCrateAt(crateSprites, targetPos)
           crateTargetPos == TargetPos(targetPos, key)
       IN  IF BulldozerBlocked(level, targetPos) THEN Blocked(turned, key)
           ELSE IF crateAtTarget # 0
           THEN IF PushBlocked(level, crateSprites, crateAtTarget, crateTargetPos)
                THEN Blocked(turned, key)
                ELSE /\ crateSprites' = PushCrate(crateSprites, crateAtTarget, crateTargetPos)
                     /\ lastMove' = LastMoveWithCrate(previousBulldozerPos,
                                                      previousBulldozerDirection,
                                                      crateSprites, crateAtTarget)
                     /\ Accepted("pushed", turned, targetPos, key)
           ELSE /\ lastMove' = LastMoveWithoutCrate(previousBulldozerPos,
                                                    previousBulldozerDirection)
                /\ crateSprites' = crateSprites
                /\ Accepted("moved", turned, targetPos, key)
    /\ UNCHANGED <<initialized, level, currentLevelNumber, storage, inflight,
                   loopRunning, levelCompleteSprite, isLevelComplete, completions,
                   candidate, verdict>>

\* UndoGated that lets every undo through
UndoGated_Never(sprite, sprites) == FALSE

\* the animation gates of undoLastMove
UndoGated(sprite, sprites) == isAnimating(sprite) \/ AnyCrateAnimating(sprites)

\* the bulldozer after an undo: position and direction from the record
RestoreBulldozer(sprite, record) ==
    setDirection([sprite EXCEPT !.position = ToSprite(record.bulldozerPos)],
                 record.bulldozerDirection)

\* RestoreCrate that puts the crate back on the bulldozer's recorded cell
RestoreCrate_BulldozerCell(sprites, record) ==
    IF "cratePos" \in DOMAIN record /\ "crateIndex" \in DOMAIN record
    THEN IF record.crateIndex + 1 \in DOMAIN sprites
         THEN [sprites EXCEPT ![record.crateIndex + 1].position = ToSprite(record.bulldozerPos)]
         ELSE sprites
    ELSE sprites

\* the crates after an undo: the recorded crate, if any, back on its cell
RestoreCrate(sprites, record) ==
    IF "cratePos" \in DOMAIN record /\ "crateIndex" \in DOMAIN record
    THEN IF record.crateIndex + 1 \in DOMAIN sprites
         THEN [sprites EXCEPT ![record.crateIndex + 1].position = ToSprite(record.cratePos)]
         ELSE sprites
    ELSE sprites

\* ClearedLastMove that keeps the record
ClearedLastMove_Kept(record) == record

\* this.lastMove = undefined
ClearedLastMove(record) == Undefined

\* the move counter after an undo
Decremented(count) == IF count > 0 THEN count - 1 ELSE count

\* key Ctrl+Z: undoLastMove
UndoLastMove ==
    /\ initialized
    /\ IF lastMove = Undefined \/ bulldozerSprite = Undefined
       THEN /\ UNCHANGED hist
            /\ UNCHANGED <<bulldozerSprite, crateSprites, lastMove, moveCount>>
       ELSE IF UndoGated(bulldozerSprite, crateSprites)
       THEN /\ UNCHANGED hist
            /\ UNCHANGED <<bulldozerSprite, crateSprites, lastMove, moveCount>>
       ELSE /\ bulldozerSprite' = RestoreBulldozer(bulldozerSprite, lastMove)
            /\ crateSprites' = RestoreCrate(crateSprites, lastMove)
            /\ lastMove' = ClearedLastMove(lastMove)
            /\ moveCount' = Decremented(moveCount)
            /\ hist' = IF hist.last \in {"moved", "pushed"}
                       THEN Observed("undo", hist.key, hist.pre)
                       ELSE Observed("undo", "", Undefined)
    /\ UNCHANGED <<initialized, level, currentLevelNumber, storage, inflight,
                   loopRunning, levelCompleteSprite, isLevelComplete, timers,
                   completions, candidate, verdict>>

\* AllEndPositionsFilled that is content with any crate on the cell
AllEndPositionsFilled_AnyCrate(lvl, sprites) ==
    \A e \in 1 .. Len(lvl.endPositions) :
        FindCrateAt(sprites, lvl.endPositions[e].position) # 0

\* the predicate of checkLevelCompletion: every end position has a crate
\* sprite (the first found on its cell) of its colour
AllEndPositionsFilled(lvl, sprites) ==
    \A e \in 1 .. Len(lvl.endPositions) :
        LET crateAtPosition == FindCrateAt(sprites, lvl.endPositions[e].position)
        IN  IF crateAtPosition = 0 THEN FALSE
            ELSE getColor(sprites[crateAtPosition]) = lvl.endPositions[e].color

\* CheckLevelCompletion without the early return on isLevelComplete
CheckLevelCompletion_Recheck ==
    /\ timers > 0
    /\ timers' = timers - 1
    /\ IF level = Undefined
       THEN UNCHANGED <<isLevelComplete, levelCompleteSprite, completions>>
       ELSE IF AllEndPositionsFilled(level, crateSprites)
       THEN /\ isLevelComplete' = TRUE
            /\ levelCompleteSprite' = TRUE
            /\ completions' = completions + 1
       ELSE UNCHANGED <<isLevelComplete, levelCompleteSprite, completions>>
    /\ UNCHANGED <<initialized, level, currentLevelNumber, storage, inflight,
                   loopRunning, bulldozerSprite, crateSprites, moveCount, lastMove,
                   candidate, verdict, hist>>

\* a completion timer fires: checkLevelCompletion, onLevelComplete
CheckLevelCompletion ==
    /\ timers > 0
    /\ timers' = timers - 1
    /\ IF level = Undefined \/ isLevelComplete
       THEN UNCHANGED <<isLevelComplete, levelCompleteSprite, completions>>
       ELSE IF AllEndPositionsFilled(level, crateSprites)
       THEN /\ isLevelComplete' = TRUE
            /\ levelCompleteSprite' = TRUE
            /\ completions' = completions + 1
       ELSE UNCHANGED <<isLevelComplete, levelCompleteSprite, completions>>
    /\ UNCHANGED <<initialized, level, currentLevelNumber, storage, inflight,
                   loopRunning, bulldozerSprite, crateSprites, moveCount, lastMove,
                   candidate, verdict, hist>>

Next ==
    \/ NgOnInit
    \/ ReloadLevel
    \/ LoadNextLevel
    \/ \E n \in LevelNumbers : LoadResponse(n)
    \/ \E n \in LevelNumbers : LoadError(n)
    \/ \E deltaTime \in DeltaTimes : Frame(deltaTime)
    \/ \E key \in Keys : HandleMovement(key)
    \/ UndoLastMove
    \/ CheckLevelCompletion

Spec == Init /\ [][Next]_vars

-----------------------------------------------------------------------------
(* validateLevel on its own: a level description is drawn, then validated *)

\* the longest crate list and end position list of a drawn level
MaxItems == 2

CandidateWidths == {0, 1, 32, 33}
CandidateHeights == {0, 1, 32, 33}
\* where the probed item of a drawn level lies; every other item lies on (0, 0)
ProbePositions ==
    {Pos(0, 0), Pos(1, 0), Pos(0, 1), Pos(-1, 0), Pos(0, -1), Pos(31, 0), Pos(32, 0)}

SeqsUpTo(S, n) == UNION {[1 .. k -> S] : k \in 0 .. n}

\* the items of a level that can be probed: <<kind, index>>
ProbeTargets(crateColors, endColors) ==
    {<<"player start", 0>>, <<"wall", 0>>}
    \cup {<<"crate", i>> : i \in 1 .. Len(crateColors)}
    \cup {<<"end position", i>> : i \in 1 .. Len(endColors)}

PlaceOf(target, item, probe) == IF target = item THEN probe ELSE Pos(0, 0)

DrawnLevel(w, h, crateColors, endColors, target, probe) ==
    [number |-> 1, width |-> w, height |-> h,
     walls |-> IF target = <<"wall", 0>> THEN <<probe>> ELSE <<>>,
     crates |-> [i \in 1 .. Len(crateColors) |->
                    [position |-> PlaceOf(target, <<"crate", i>>, probe),
                     color |-> crateColors[i]]],
     playerStartPosition |-> PlaceOf(target, <<"player start", 0>>, probe),
     endPositions |-> [i \in 1 .. Len(endColors) |->
                    [position |-> PlaceOf(target, <<"end position", i>>, probe),
                     color |-> endColors[i]]]]

CandidateLevels ==
    {DrawnLevel(w, h, cc, ec, t, p) :
        <<w, h, cc, ec, t, p>> \in
            {<<w, h, cc, ec, t, p>> \in
                CandidateWidths \X CandidateHeights
                \X SeqsUpTo({Red, Blue, Null}, MaxItems)
                \X SeqsUpTo({Red, Blue}, MaxItems)
                \X ({"player start", "wall", "crate", "end position"} \X (0 .. MaxItems))
                \X ProbePositions :
             t \in ProbeTargets(cc, ec)}}

\* levels of one cell whose items lie, each on its own, on that cell or left of
\* it: several positions of a level can be out of the field at once
MisplacedLevels ==
    LET Places == {Pos(0, 0), Pos(-1, 0)}
        Items(colours) == [position : Places, color : colours]
    IN  {[number |-> 1, width |-> 1, height |-> 1,
          walls |-> ws, crates |-> cs,
          playerStartPosition |-> start, endPositions |-> es] :
            ws \in SeqsUpTo(Places, MaxItems),
            cs \in SeqsUpTo(Items({Red, Null}), MaxItems),
            start \in Places,
            es \in SeqsUpTo(Items({Red}), MaxItems)}

InitValidate ==
    /\ candidate \in CandidateLevels \cup MisplacedLevels
    /\ verdict = Undefined
    /\ initialized = FALSE
    /\ level = Undefined
    /\ currentLevelNumber = 1
    /\ storage = Undefined
    /\ inflight = [n \in LevelNumbers |-> 0]
    /\ loopRunning = FALSE
    /\ bulldozerSprite = Undefined
    /\ crateSprites = <<>>
    /\ levelCompleteSprite = FALSE
    /\ isLevelComplete = FALSE
    /\ moveCount = 0
    /\ lastMove = Undefined
    /\ timers = 0
    /\ completions = 0
    /\ hist = [last |-> "new", key |-> "", pre |-> Undefined]

\* validateLevel(candidate) is called
Validate ==
    /\ verdict = Undefined
    /\ verdict' = validateLevel(candidate)
    /\ UNCHANGED <<candidate, sessionVars>>

NextValidate == Validate

SpecValidate == InitValidate /\ [][NextValidate]_vars

-----------------------------------------------------------------------------
(* A session on the 4 x 4 field of the push scenario *)

\* /levels/level-1.json of this session: a field of 4 x 4 cells bounded by
\* its border, no wall cell, a red crate between the start and the red end
\* position
ScenarioLevel ==
    [number |-> 1, width |-> 4, height |-> 4,
     walls |-> <<>>,
     crates |-> <<[position |-> Pos(2, 1), color |-> Red]>>,
     playerStartPosition |-> Pos(1, 1),
     endPositions |-> <<[position |-> Pos(3, 1), color |-> Red]>>]

\* the state when ngOnInit has run and the response with the level has been
\* handled: level = the file, initializeLevel, the game loop runs
InitScenario ==
    /\ initialized = TRUE
    /\ level = ScenarioLevel
    /\ currentLevelNumber = ScenarioLevel.number
    /\ storage = [value |-> ScenarioLevel.number]
    /\ inflight = [n \in LevelNumbers |-> 0]
    /\ loopRunning = TRUE
    /\ bulldozerSprite = NewBulldozerSprite(ScenarioLevel.playerStartPosition, Down)
    /\ crateSprites = InitialCrateSprites(ScenarioLevel)
    /\ levelCompleteSprite = FALSE
    /\ isLevelComplete = FALSE
    /\ moveCount = 0
    /\ lastMove = Undefined
    /\ timers = 0
    /\ completions = 0
    /\ candidate = Undefined
    /\ verdict = Undefined
    /\ hist = Observed("load", "", Undefined)

\* the keys, the frames and the timers of a session that loads no other level
NextScenario ==
    \/ \E deltaTime \in DeltaTimes : Frame(deltaTime)
    \/ \E key \in Keys : HandleMovement(key)
    \/ UndoLastMove
    \/ CheckLevelCompletion

SpecScenario == InitScenario /\ [][NextScenario]_vars

-----------------------------------------------------------------------------
(* A session on a level with more coloured crates than end positions *)

\* /levels/level-1.json of this session: two red crates and one red end
\* position; initializeLevel takes the file as it is
SurplusLevel ==
    [number |-> 1, width |-> 4, height |-> 2,
     walls |-> <<>>,
     crates |-> <<[position |-> Pos(2, 0), color |-> Red],
                  [position |-> Pos(1, 1), color |-> Red]>>,
     playerStartPosition |-> Pos(1, 0),
     endPositions |-> <<[position |-> Pos(3, 0), color |-> Red]>>]

\* the state when ngOnInit has run and the response with the level has been
\* handled: level = the file, initializeLevel, the game loop runs
LoadedState(lvl) ==
    /\ initialized = TRUE
    /\ level = lvl
    /\ currentLevelNumber = lvl.number
    /\ storage = [value |-> lvl.number]
    /\ inflight = [n \in LevelNumbers |-> 0]
    /\ loopRunning = TRUE
    /\ bulldozerSprite = NewBulldozerSprite(lvl.playerStartPosition, Down)
    /\ crateSprites = InitialCrateSprites(lvl)
    /\ levelCompleteSprite = FALSE
    /\ isLevelComplete = FALSE
    /\ moveCount = 0
    /\ lastMove = Undefined
    /\ timers = 0
    /\ completions = 0
    /\ candidate = Undefined
    /\ verdict = Undefined
    /\ hist = Observed("load", "", Undefined)

InitSurplus == LoadedState(SurplusLevel)

\* the keys, the frames and the timers of this session
NextSurplus ==
    \/ \E deltaTime \in DeltaTimes : Frame(deltaTime)
    \/ \E key \in Keys : HandleMovement(key)
    \/ UndoLastMove
    \/ CheckLevelCompletion

SpecSurplus == InitSurplus /\ [][NextSurplus]_vars

-----------------------------------------------------------------------------
(* The level generator: the script that writes level-2.json .. level-99.json *)

\* the highest level number the model generates (the script goes on to 99)
MaxLevelNum == 15
\* how many of the unoccupied cells, in reading order, a placement loop can
\* end on
MaxPlacements == 2

\* const colors
colors ==
    <<"#FF0000", "#00FF00", "#0000FF", "#FFFF00",
      "#FF00FF", "#00FFFF", "#FFA500", "#800080">>

Min(a, b) == IF a <= b THEN a ELSE b
Max(a, b) == IF a >= b THEN a ELSE b

\* the values of Math.floor(Math.random() * n)
RandomBelow(n) == 0 .. (n - 1)

\* "Ensure minimum playable area"
Clamped(w, h, crateCount, colorCount) ==
    LET width == Max(6, Min(w, 24))
        height == Max(6, Min(h, 24))
        numCrates == Min(crateCount, ((width - 2) * (height - 2)) \div 8)
    IN  [width |-> width, height |-> height, numCrates |-> numCrates,
         numColors |-> Min(Min(colorCount, numCrates), 8)]

\* "Progressive difficulty": width, height, numCrates and numColors of level
\* levelNum, one record for each outcome of the random draws
Difficulty(levelNum) ==
    IF levelNum <= 10
    THEN {Clamped(6 + levelNum \div 3, 6 + levelNum \div 3,
                  1 + levelNum \div 6, 1 + levelNum \div 6)}
    ELSE IF levelNum <= 30
    THEN {Clamped(8 + (levelNum - 10) \div 3, 8 + (levelNum - 10) \div 3,
                  2 + (levelNum - 10) \div 5, 2 + (levelNum - 10) \div 8)}
    ELSE IF levelNum <= 60
    THEN {Clamped(12 + (levelNum - 30) \div 5, 12 + (levelNum - 30) \div 5,
                  4 + (levelNum - 30) \div 6, 3 + (levelNum - 30) \div 10)}
    ELSE IF levelNum <= 80
    THEN IF levelNum % 3 = 0
         THEN {Clamped(7 + rw, 7 + rh, 4 + rc, 4 + (levelNum - 60) \div 8) :
                  rw \in RandomBelow(3), rh \in RandomBelow(3), rc \in RandomBelow(3)}
         ELSE {Clamped(14 + (levelNum - 60) \div 4, 14 + (levelNum - 60) \div 4,
                       5 + (levelNum - 60) \div 5, 4 + (levelNum - 60) \div 8)}
    ELSE IF levelNum % 2 = 0
         THEN {Clamped(8 + rw, 8 + rh, 5 + rc, Min(5 + (levelNum - 80) \div 5, 8)) :
                  rw \in RandomBelow(4), rh \in RandomBelow(4), rc \in RandomBelow(4)}
         ELSE {Clamped(16 + (levelNum - 80) \div 3, 16 + (levelNum - 80) \div 3,
                       6 + (levelNum - 80) \div 4, Min(5 + (levelNum - 80) \div 5, 8))}

\* createPerimeterWalls(width, height): top and bottom row cell by cell, then
\* the left and right column
createPerimeterWalls(width, height) ==
    [i \in 1 .. 2 * width |->
        Pos((i - 1) \div 2, IF i % 2 = 1 THEN 0 ELSE height - 1)]
    \o [i \in 1 .. 2 * (height - 2) |->
        Pos(IF i % 2 = 1 THEN 0 ELSE width - 1, 1 + (i - 1) \div 2)]

\* isOccupied(x, y, walls, crates, player, endPos)
isOccupied(cell, walls, crates, player, endPos) ==
    \/ \E i \in DOMAIN walls : walls[i] = cell
    \/ \E i \in DOMAIN crates : crates[i].position = cell
    \/ player = cell
    \/ \E i \in DOMAIN endPos : endPos[i].position = cell

\* where a placement loop can end: a cell (1 + Math.floor(Math.random() *
\* (width - 2)), 1 + Math.floor(Math.random() * (height - 2))) that is not
\* occupied, one of the first MaxPlacements of them
Placements(p, walls, crates, player, endPos) ==
    LET free == {cell \in {Pos(1 + rx, 1 + ry) :
                              rx \in RandomBelow(p.width - 2),
                              ry \in RandomBelow(p.height - 2)} :
                    ~isOccupied(cell, walls, crates, player, endPos)}
        Before(cell) ==
            Cardinality({other \in free :
                \/ other.y < cell.y
                \/ other.y = cell.y /\ other.x < cell.x})
    IN  {cell \in free : Before(cell) < MaxPlacements}

\* levelNum % 7 === 0 && numCrates >= 3
sameColor(levelNum, numCrates) == levelNum % 7 = 0 /\ numCrates >= 3

\* crateColors before the shuffle, one sequence for each outcome of the draw
\* of the one colour
CrateColors(levelNum, numCrates, numColors) ==
    IF sameColor(levelNum, numCrates)
    THEN {[i \in 1 .. numCrates |-> colors[k + 1]] :
             k \in RandomBelow(Min(numColors, Len(colors)))}
    ELSE LET numNeutral == numCrates \div 5
         IN  {[i \in 1 .. numCrates |->
                  IF i <= numCrates - numNeutral
                  THEN colors[((i - 1) % numColors) + 1]
                  ELSE Null]}

Swap(s, i, j) == [s EXCEPT ![i] = s[j], ![j] = s[i]]

\* "Shuffle crate colors": what the loop can leave, from index i downwards
RECURSIVE Shuffled(_, _)
Shuffled(s, i) ==
    IF i <= 1 THEN {s}
    ELSE UNION {Shuffled(Swap(s, i, j), i - 1) : j \in 1 .. i}

\* [...new Set(items)]: each value once, in the order of first appearance
RECURSIVE Unique(_)
Unique(items) ==
    IF items = <<>> THEN <<>>
    ELSE <<Head(items)>>
         \o Unique(SelectSeq(Tail(items), LAMBDA c : c # Head(items)))

\* the crates arrays the placing loop can build, continuing from `crates`
RECURSIVE PlacedCrates(_, _, _, _, _)
PlacedCrates(p, walls, player, crateColors, crates) ==
    IF Len(crates) = Len(crateColors) THEN {crates}
    ELSE UNION {PlacedCrates(p, walls, player, crateColors,
                    Append(crates, [position |-> cell,
                                    color |-> crateColors[Len(crates) + 1]])) :
                cell \in Placements(p, walls, crates, player, <<>>)}

\* the endPositions arrays the loop over uniqueColors can build, continuing
\* from endPos
RECURSIVE PlacedEndPositions(_, _, _, _, _, _)
PlacedEndPositions(p, walls, crates, player, uniqueColors, endPos) ==
    IF Len(endPos) = Len(uniqueColors) THEN {endPos}
    ELSE UNION {PlacedEndPositions(p, walls, crates, player, uniqueColors,
                    Append(endPos, [position |-> cell,
                                    color |-> uniqueColors[Len(endPos) + 1]])) :
                cell \in Placements(p, walls, crates, player, endPos)}

InitGenerate ==
    /\ candidate = Undefined
    /\ verdict = Undefined
    /\ initialized = FALSE
    /\ level = Undefined
    /\ currentLevelNumber = 1
    /\ storage = Undefined
    /\ inflight = [n \in LevelNumbers |-> 0]
    /\ loopRunning = FALSE
    /\ bulldozerSprite = Undefined
    /\ crateSprites = <<>>
    /\ levelCompleteSprite = FALSE
    /\ isLevelComplete = FALSE
    /\ moveCount = 0
    /\ lastMove = Undefined
    /\ timers = 0
    /\ completions = 0
    /\ hist = [last |-> "new", key |-> "", pre |-> Undefined]

\* one pass of the loop over levelNum: the level object written to
\* level-<levelNum>.json. The interior obstacles are not generated: they take
\* cells away from the placement loops and nothing else.
Generate ==
    /\ candidate = Undefined
    /\ \E levelNum \in 2 .. MaxLevelNum :
       \E p \in Difficulty(levelNum) :
       LET walls == createPerimeterWalls(p.width, p.height) IN
       \E player \in Placements(p, walls, <<>>, Pos(-1, -1), <<>>) :
       \E ordered \in CrateColors(levelNum, p.numCrates, p.numColors) :
       \E crateColors \in Shuffled(ordered, Len(ordered)) :
       \E crates \in PlacedCrates(p, walls, player, crateColors, <<>>) :
       LET coloredCrates == SelectSeq(crateColors, LAMBDA c : c # Null) IN
       \E endPositions \in
            PlacedEndPositions(p, walls, crates, player, Unique(coloredCrates), <<>>) :
          candidate' =
            [number |-> levelNum, width |-> p.width, height |-> p.height,
             walls |-> walls, crates |-> crates,
             playerStartPosition |-> player, endPositions |-> endPositions]
    /\ UNCHANGED <<verdict, sessionVars>>

\* validateLevel is called on the generated level
ValidateGenerated ==
    /\ candidate # Undefined
    /\ Validate

NextGenerate == Generate \/ ValidateGenerated

SpecGenerate == InitGenerate /\ [][NextGenerate]_vars

-----------------------------------------------------------------------------
(* A session on level 1 in which no key is pressed once an accepted move has
   sent a matching crate to every end position; frames and timers go on *)

\* where a sprite is once its animation, if any, is over
RestingPlace(sprite) == IF sprite.isMoving THEN sprite.moveEndPos ELSE sprite.position

\* the last handler was an accepted move and every end position is the resting
\* place of a crate of its colour
SolvingMoveMade ==
    /\ hist.last \in {"moved", "pushed"}
    /\ \A e \in DOMAIN level.endPositions :
          \E i \in DOMAIN crateSprites :
              /\ RestingPlace(crateSprites[i]) = ToSprite(level.endPositions[e].position)
              /\ crateSprites[i].color = level.endPositions[e].color

InitQuiet == LoadedState(Level1)

NextQuiet ==
    \/ \E deltaTime \in DeltaTimes : Frame(deltaTime)
    \/ CheckLevelCompletion
    \/ ~SolvingMoveMade /\ \E key \in Keys : HandleMovement(key)
    \/ ~SolvingMoveMade /\ UndoLastMove

\* requestAnimationFrame keeps calling the game loop, and a timer that was set
\* fires
SpecQuiet ==
    /\ InitQuiet
    /\ [][NextQuiet]_vars
    /\ WF_vars(\E deltaTime \in DeltaTimes : Frame(deltaTime))
    /\ WF_vars(CheckLevelCompletion)

-----------------------------------------------------------------------------
(* A session in which no level request fails: every answer is the level file *)

NextAnswered ==
    \/ NgOnInit
    \/ ReloadLevel
    \/ LoadNextLevel
    \/ \E n \in LevelNumbers : LoadResponse(n)
    \/ \E deltaTime \in DeltaTimes : Frame(deltaTime)
    \/ \E key \in Keys : HandleMovement(key)
    \/ UndoLastMove
    \/ CheckLevelCompletion

SpecAnswered == Init /\ [][NextAnswered]_vars

-----------------------------------------------------------------------------
(* A session on level 3 in which every level request fails *)

InitFailing == LoadedState(Level3)

NextFailing ==
    \/ ReloadLevel
    \/ LoadNextLevel
    \/ \E n \in LevelNumbers : LoadError(n)
    \/ \E deltaTime \in DeltaTimes : Frame(deltaTime)
    \/ \E key \in Keys : HandleMovement(key)
    \/ UndoLastMove
    \/ CheckLevelCompletion

SpecFailing == InitFailing /\ [][NextFailing]_vars

-----------------------------------------------------------------------------
(* What the properties below speak of *)

\* the facing an arrow key asks for
Facing(key) ==
    CASE key = "ArrowUp" -> Up
      [] key = "ArrowRight" -> Right
      [] key = "ArrowDown" -> Down
      [] key = "ArrowLeft" -> Left

\* the cell next to `cell` in the direction of an arrow key
Ahead(cell, key) ==
    CASE key = "ArrowUp" -> Pos(cell.x, cell.y - 1)
      [] key = "ArrowRight" -> Pos(cell.x + 1, cell.y)
      [] key = "ArrowDown" -> Pos(cell.x, cell.y + 1)
      [] key = "ArrowLeft" -> Pos(cell.x - 1, cell.y)

InField(lvl, cell) ==
    /\ cell.x \in 0 .. (lvl.width - 1)
    /\ cell.y \in 0 .. (lvl.height - 1)

WallCells(lvl) == {lvl.walls[i] : i \in DOMAIN lvl.walls}

\* the sprite positions of the crates, in order
CratePositions == [i \in DOMAIN crateSprites |-> crateSprites[i].position]

\* the crates that stand on a cell, given the crates' sprite positions
CratesOn(positions, cell) == {i \in DOMAIN positions : positions[i] = ToSprite(cell)}

\* handleMovement is past its gates: a level is loaded and not complete,
\* no sprite is animating
Ready ==
    /\ initialized
    /\ level # Undefined
    /\ Settled
    /\ ~isLevelComplete

\* the cell in front of the bulldozer is in the field and no wall
TargetIsOpen(lvl, from, key) ==
    /\ InField(lvl, Ahead(from, key))
    /\ Ahead(from, key) \notin WallCells(lvl)

\* a crate stands in front of the bulldozer and the cell behind it is free
PushIsPossible(lvl, positions, from, key) ==
    /\ TargetIsOpen(lvl, from, key)
    /\ CratesOn(positions, Ahead(from, key)) # {}
    /\ InField(lvl, Ahead(Ahead(from, key), key))
    /\ Ahead(Ahead(from, key), key) \notin WallCells(lvl)
    /\ CratesOn(positions, Ahead(Ahead(from, key), key)) = {}

\* a crate stands in front of the bulldozer and the cell behind it is out of
\* the field, a wall, or holds a crate
PushIsBlocked(lvl, positions, from, key) ==
    /\ TargetIsOpen(lvl, from, key)
    /\ CratesOn(positions, Ahead(from, key)) # {}
    /\ \/ ~InField(lvl, Ahead(Ahead(from, key), key))
       \/ Ahead(Ahead(from, key), key) \in WallCells(lvl)
       \/ CratesOn(positions, Ahead(Ahead(from, key), key)) # {}

-----------------------------------------------------------------------------
(* Properties *)

\* C1: once an accepted push has settled, exactly one crate has changed its
\* position; it stood on the cell in front of the bulldozer and now stands one
\* cell further in the move direction; every other crate is where it was; the
\* bulldozer stands on the cell the pushed crate left
C1_PushMovesOneCrateOneCell ==
    (hist.last = "pushed" /\ Settled) =>
        LET target == Ahead(hist.pre.pos, hist.key)
            beyond == Ahead(target, hist.key)
            moved == {i \in DOMAIN crateSprites :
                        crateSprites[i].position # hist.pre.crates[i]}
        IN  /\ PushIsPossible(level, hist.pre.crates, hist.pre.pos, hist.key)
            /\ Cardinality(moved) = 1
            /\ \A i \in moved :
                  /\ hist.pre.crates[i] = ToSprite(target)
                  /\ crateSprites[i].position = ToSprite(beyond)
            /\ bulldozerSprite.position = ToSprite(target)

C1_Witness ==
    /\ hist.last = "pushed"
    /\ Settled
    /\ Len(crateSprites) = 2
    /\ crateSprites[2].position # hist.pre.crates[2]

\* C2: a move towards a crate that cannot give way (the cell behind it is out
\* of the field, a wall, or holds a crate) leaves the bulldozer and every
\* crate where they are, starts no move, and turns the bulldozer to the
\* requested direction
C2_BlockedPushOnlyTurns ==
    [][\A key \in ArrowKeys :
        (/\ Ready
         /\ PushIsBlocked(level, CratePositions, RoundPos(bulldozerSprite.position), key)
         /\ HandleMovement(key))
        => /\ bulldozerSprite'.position = bulldozerSprite.position
           /\ ~bulldozerSprite'.isMoving
           /\ crateSprites' = crateSprites
           /\ bulldozerSprite'.direction = Facing(key)]_vars

C2_Witness ==
    /\ hist.last = "blocked"
    /\ Ready
    /\ PushIsBlocked(level, CratePositions, RoundPos(bulldozerSprite.position), hist.key)
    /\ CratesOn(CratePositions, Ahead(Ahead(RoundPos(bulldozerSprite.position), hist.key),
                                      hist.key)) # {}
    /\ bulldozerSprite.direction = Facing(hist.key)

\* C3: a move towards a cell that is out of the field or a wall changes the
\* facing to the requested direction and nothing else: the bulldozer position,
\* the crates, the undo record, the move counter and the completion flag stay
C3_BlockedTargetOnlyTurns ==
    [][\A key \in ArrowKeys :
        (/\ Ready
         /\ ~TargetIsOpen(level, RoundPos(bulldozerSprite.position), key)
         /\ HandleMovement(key))
        => /\ bulldozerSprite'.position = bulldozerSprite.position
           /\ ~bulldozerSprite'.isMoving
           /\ crateSprites' = crateSprites
           /\ lastMove' = lastMove
           /\ moveCount' = moveCount
           /\ isLevelComplete' = isLevelComplete
           /\ bulldozerSprite'.direction = Facing(key)]_vars

C3_Witness ==
    /\ hist.last = "blocked"
    /\ Ready
    /\ Ahead(RoundPos(bulldozerSprite.position), hist.key) \in WallCells(level)
    /\ bulldozerSprite.direction = Facing(hist.key)
    /\ lastMove # Undefined

\* C4: once an accepted move onto a cell without a crate has settled, the
\* bulldozer stands on that cell and faces the requested direction, no crate
\* has moved, and the undo record holds the bulldozer's cell before the move
\* and no crate fields
C4_FreeMoveMovesOnlyTheBulldozer ==
    (hist.last = "moved" /\ Settled) =>
        /\ TargetIsOpen(level, hist.pre.pos, hist.key)
        /\ CratesOn(hist.pre.crates, Ahead(hist.pre.pos, hist.key)) = {}
        /\ bulldozerSprite.position = ToSprite(Ahead(hist.pre.pos, hist.key))
        /\ bulldozerSprite.direction = Facing(hist.key)
        /\ CratePositions = hist.pre.crates
        /\ lastMove # Undefined
        /\ DOMAIN lastMove = {"bulldozerPos", "bulldozerDirection"}
        /\ lastMove.bulldozerPos = hist.pre.pos

\* a settled free move that passed a crate standing beside the bulldozer
C4_Witness ==
    /\ hist.last = "moved"
    /\ Settled
    /\ \E key \in ArrowKeys : CratesOn(hist.pre.crates, Ahead(hist.pre.pos, key)) # {}

\* C5: an undo applied to a settled accepted move puts the bulldozer back on
\* the cell it had before the move and every crate, the pushed one included,
\* back where it was before the move
C5_UndoRestoresPositions ==
    (hist.last = "undo" /\ hist.pre # Undefined) =>
        /\ bulldozerSprite.position = ToSprite(hist.pre.pos)
        /\ CratePositions = hist.pre.crates

\* an undo of a push: the record named a crate
C5_Witness ==
    /\ hist.last = "undo"
    /\ hist.pre # Undefined
    /\ CratesOn(hist.pre.crates, Ahead(hist.pre.pos, hist.key)) # {}
    /\ moveCount = 1

\* C6: an undo applied to a settled accepted move gives the bulldozer the
\* facing it had before that move was requested
C6_UndoRestoresFacing ==
    (hist.last = "undo" /\ hist.pre # Undefined) =>
        bulldozerSprite.direction = hist.pre.dir

\* C7: when a level load has completed the undo record is empty
C7_NoUndoRecordAfterLoad ==
    hist.last = "load" => lastMove = Undefined

\* C8: a move is accepted only on a level validateLevel returns true for
C8_MovesOnlyOnValidLevels ==
    hist.last \in {"moved", "pushed"} => validateLevel(level) = [ok |-> TRUE]

\* the number of items of a sequence that satisfy a test
CountOf(items, Test(_)) == Cardinality({i \in DOMAIN items : Test(items[i])})

\* a level description as the validator's contract wants it
WellFormed(lvl) ==
    /\ lvl.width \in 1 .. 32
    /\ lvl.height \in 1 .. 32
    /\ \A c \in {Red, Blue} :
          CountOf(lvl.endPositions, LAMBDA e : e.color = c)
              = CountOf(lvl.crates, LAMBDA crate : crate.color = c)
    /\ InField(lvl, lvl.playerStartPosition)
    /\ \A i \in DOMAIN lvl.walls : InField(lvl, lvl.walls[i])
    /\ \A i \in DOMAIN lvl.crates : InField(lvl, lvl.crates[i].position)
    /\ \A i \in DOMAIN lvl.endPositions : InField(lvl, lvl.endPositions[i].position)

\* C9: validateLevel returns true exactly for the levels whose width and
\* height lie in 1..32, whose end position colours and non-null crate colours
\* are the same multiset, and whose positions all lie in the field; for every
\* other level it throws
C9_ValidateLevelAcceptsExactlyWellFormed ==
    verdict # Undefined =>
        /\ (verdict = [ok |-> TRUE]) <=> WellFormed(candidate)
        /\ (verdict # [ok |-> TRUE]) => (verdict.ok = FALSE)

\* a level of the largest width with a neutral crate and two end positions
C9_Witness ==
    /\ verdict = [ok |-> TRUE]
    /\ candidate.width = 32
    /\ Len(candidate.endPositions) = 2
    /\ Len(candidate.crates) = 2

\* C10: in a settled state the predicate of checkLevelCompletion is true
\* exactly when every end position holds a crate of the end position's colour
C10_CompleteIffEveryGoalHoldsItsColour ==
    (level # Undefined /\ Settled) =>
        (AllEndPositionsFilled(level, crateSprites)
         <=> \A e \in DOMAIN level.endPositions :
                \E i \in DOMAIN crateSprites :
                    /\ RoundPos(crateSprites[i].position) = level.endPositions[e].position
                    /\ crateSprites[i].color = level.endPositions[e].color)

\* the crates whose sprite stands (rounded) on a cell
CratesRoundingTo(cell) ==
    {i \in DOMAIN crateSprites : RoundPos(crateSprites[i].position) = cell}

\* an end position whose cell holds crates, every one of them neutral
CoveredOnlyByNeutral(e) ==
    /\ CratesRoundingTo(level.endPositions[e].position) # {}
    /\ \A i \in CratesRoundingTo(level.endPositions[e].position) :
          crateSprites[i].color = Null

\* C11: while some end position is covered only by neutral crates the
\* predicate of checkLevelCompletion is false, and no step taken in such a
\* state marks the level complete
C11_NeutralCrateNeverSatisfies ==
    /\ [](level # Undefined =>
            \A e \in DOMAIN level.endPositions :
                CoveredOnlyByNeutral(e) => ~AllEndPositionsFilled(level, crateSprites))
    /\ [][(/\ level # Undefined
           /\ ~isLevelComplete
           /\ level' = level
           /\ \E e \in DOMAIN level.endPositions : CoveredOnlyByNeutral(e))
          => ~isLevelComplete']_vars

\* a neutral crate has been pushed onto an end position, the completion
\* checks have all run, and the level is not complete
C11_Witness ==
    /\ level # Undefined
    /\ hist.last = "pushed"
    /\ Settled
    /\ timers = 0
    /\ ~isLevelComplete
    /\ \E e \in DOMAIN level.endPositions : CoveredOnlyByNeutral(e)

\* a move animation of the bulldozer or of a crate is running
SomeSpriteMoving ==
    /\ bulldozerSprite # Undefined
    /\ \/ bulldozerSprite.isMoving
       \/ \E i \in DOMAIN crateSprites : crateSprites[i].isMoving

\* a sprite is at rest on a cell of the grid
AtRest(sprite) ==
    /\ ~sprite.isMoving
    /\ sprite.position = ToSprite(RoundPos(sprite.position))

\* C12: handleMovement called while the bulldozer or a crate is animating
\* changes neither the bulldozer (position, facing) nor a crate nor the undo
\* record nor the move counter; a move is accepted only when every sprite is
\* at rest on its cell
C12_MoveWhileAnimatingRejected ==
    [][\A key \in Keys :
        HandleMovement(key) =>
            /\ SomeSpriteMoving =>
                  /\ bulldozerSprite' = bulldozerSprite
                  /\ crateSprites' = crateSprites
                  /\ lastMove' = lastMove
                  /\ moveCount' = moveCount
            /\ moveCount' # moveCount =>
                  /\ AtRest(bulldozerSprite)
                  /\ \A i \in DOMAIN crateSprites : AtRest(crateSprites[i])]_vars

\* the bulldozer and a crate are half way through a push, and the cell the
\* bulldozer would go to next is open
C12_Witness ==
    /\ initialized
    /\ level # Undefined
    /\ ~isLevelComplete
    /\ SomeSpriteMoving
    /\ bulldozerSprite.moveProgress = 100
    /\ \E i \in DOMAIN crateSprites : crateSprites[i].isMoving
    /\ hist.last = "pushed"
    /\ \E key \in ArrowKeys :
          TargetIsOpen(level, RoundPos(bulldozerSprite.position), key)

\* C13: undoLastMove called while the bulldozer or a crate is animating
\* changes neither a position nor the facing nor the move counter and keeps
\* the undo record; no step taken while a sprite is animating drops the
\* record, so it is still there when the animation has settled
C13_UndoWhileAnimatingRejected ==
    [][/\ (UndoLastMove /\ SomeSpriteMoving) =>
              /\ bulldozerSprite' = bulldozerSprite
              /\ crateSprites' = crateSprites
              /\ moveCount' = moveCount
              /\ lastMove' = lastMove
       /\ (SomeSpriteMoving /\ lastMove # Undefined) => lastMove' # Undefined]_vars

\* an undo has been applied to a move once its animation had run to its end
C13_Witness ==
    /\ hist.last = "undo"
    /\ hist.pre # Undefined
    /\ lastMove = Undefined
    /\ bulldozerSprite.moveProgress = moveDuration
    /\ bulldozerSprite.position = ToSprite(hist.pre.pos)
    /\ bulldozerSprite.moveEndPos # bulldozerSprite.position

\* C14: an applied undo clears the undo record, so right after it no record
\* is retained; undoLastMove called when no record is retained changes
\* neither the bulldozer (position, facing) nor a crate nor the move counter
C14_UndoWithoutRecordIsNoOp ==
    /\ [](hist.last = "undo" => lastMove = Undefined)
    /\ [][(UndoLastMove /\ lastMove = Undefined) =>
              /\ bulldozerSprite' = bulldozerSprite
              /\ crateSprites' = crateSprites
              /\ moveCount' = moveCount
              /\ lastMove' = Undefined]_vars

\* an undo has been applied after two accepted moves: the counter is still
\* positive and no record is left for a second undo
C14_Witness ==
    /\ hist.last = "undo"
    /\ hist.pre # Undefined
    /\ Settled
    /\ moveCount > 0
    /\ lastMove = Undefined

\* C15: an undo applied after two accepted moves restores the state that
\* held between the two moves (bulldozer cell and facing, every crate) and
\* leaves no record, so no further undo leads back before the first move
C15_UndoDepthOne ==
    (hist.last = "undo" /\ hist.pre # Undefined /\ moveCount >= 1) =>
        /\ bulldozerSprite.position = ToSprite(hist.pre.pos)
        /\ bulldozerSprite.direction = hist.pre.dir
        /\ CratePositions = hist.pre.crates
        /\ lastMove = Undefined

\* C16: the move counter is never negative and is 0 when a level load has
\* completed; a handleMovement step raises it by one exactly when the move is
\* accepted (the bulldozer starts to move) and leaves it alone otherwise; an
\* applied undo (one that consumes the record) lowers it by exactly one
C16_MoveCounter ==
    /\ [](moveCount >= 0 /\ (hist.last = "load" => moveCount = 0))
    /\ [][/\ \A key \in Keys :
                HandleMovement(key) =>
                    IF /\ bulldozerSprite # Undefined
                       /\ ~bulldozerSprite.isMoving
                       /\ bulldozerSprite'.isMoving
                    THEN moveCount' = moveCount + 1
                    ELSE moveCount' = moveCount
          /\ (UndoLastMove /\ lastMove # Undefined /\ lastMove' = Undefined) =>
                moveCount' = moveCount - 1]_vars

\* C17: while the level is marked complete handleMovement changes neither the
\* bulldozer (position, facing) nor a crate nor the undo record nor the move
\* counter, and the mark is taken back by nothing but a level load
C17_NoMovesOnceComplete ==
    [][/\ \A key \in Keys :
            (isLevelComplete /\ HandleMovement(key)) =>
                /\ bulldozerSprite' = bulldozerSprite
                /\ crateSprites' = crateSprites
                /\ lastMove' = lastMove
                /\ moveCount' = moveCount
       /\ (isLevelComplete /\ ~isLevelComplete') =>
                \E n \in LevelNumbers : LoadResponse(n)]_vars

\* the level is complete, every sprite is at rest, and the bulldozer has an
\* open cell without a crate next to it and faces another way
C17_Witness ==
    /\ initialized
    /\ level # Undefined
    /\ isLevelComplete
    /\ Settled
    /\ \E key \in ArrowKeys :
          /\ TargetIsOpen(level, RoundPos(bulldozerSprite.position), key)
          /\ CratesOn(CratePositions, Ahead(RoundPos(bulldozerSprite.position), key)) = {}
          /\ bulldozerSprite.direction # Facing(key)

\* C18: the completion check an accepted move has scheduled does not run
\* while a sprite is still animating: when the only pending timer fires after
\* an accepted move, the bulldozer and every crate are at rest
C18_CheckRunsAfterSettling ==
    [][(/\ CheckLevelCompletion
        /\ timers = 1
        /\ hist.last \in {"moved", "pushed"})
       => ~SomeSpriteMoving]_vars

\* the request in the direction of `key` is blocked where the bulldozer stands
IsBlocked(key) ==
    \/ ~TargetIsOpen(level, RoundPos(bulldozerSprite.position), key)
    \/ PushIsBlocked(level, CratePositions, RoundPos(bulldozerSprite.position), key)

\* C19: when the last handler that wrote state was a blocked move request in
\* some direction, the same request made again is blocked again and changes
\* nothing at all: positions, facing, undo record, move counter, pending
\* checks and completion flag are what they were after the first request
C19_BlockedIsIdempotent ==
    [][\A key \in ArrowKeys :
        (/\ hist.last = "blocked"
         /\ hist.key = key
         /\ HandleMovement(key))
        => /\ bulldozerSprite' = bulldozerSprite
           /\ crateSprites' = crateSprites
           /\ lastMove' = lastMove
           /\ moveCount' = moveCount
           /\ timers' = timers
           /\ isLevelComplete' = isLevelComplete
           /\ hist' = hist
           /\ (Ready => IsBlocked(key))]_vars

\* a move request was blocked by a crate that cannot give way, after a move
\* had been accepted, and the same request can be made again
C19_Witness ==
    /\ hist.last = "blocked"
    /\ Ready
    /\ IsBlocked(hist.key)
    /\ PushIsBlocked(level, CratePositions, RoundPos(bulldozerSprite.position), hist.key)
    /\ bulldozerSprite.direction = Facing(hist.key)
    /\ moveCount > 0

\* the start of the push scenario: the bulldozer at (1,1) facing Down and at
\* rest, the red crate at (2,1) at rest, the level not complete
ScenarioStart ==
    /\ level = ScenarioLevel
    /\ ~isLevelComplete
    /\ bulldozerSprite.position = ToSprite(Pos(1, 1))
    /\ bulldozerSprite.direction = Down
    /\ ~bulldozerSprite.isMoving
    /\ CratePositions = <<ToSprite(Pos(2, 1))>>
    /\ ~crateSprites[1].isMoving

\* C20: on the 4 x 4 field with the bulldozer at (1,1) facing Down, a red
\* crate at (2,1) and a red end position at (3,1), a move Right is accepted
\* as a push; once it has settled the crate stands on (3,1), the bulldozer on
\* (2,1), and the predicate of checkLevelCompletion is true
C20_ScenarioPushCompletes ==
    /\ [][(ScenarioStart /\ HandleMovement("ArrowRight")) =>
              /\ hist'.last = "pushed"
              /\ crateSprites'[1].moveEndPos = ToSprite(Pos(3, 1))
              /\ bulldozerSprite'.moveEndPos = ToSprite(Pos(2, 1))]_vars
    /\ []((/\ hist.last = "pushed"
           /\ hist.key = "ArrowRight"
           /\ hist.pre = [pos |-> Pos(1, 1), dir |-> Down,
                          crates |-> <<ToSprite(Pos(2, 1))>>]
           /\ Settled)
          => /\ CratePositions = <<ToSprite(Pos(3, 1))>>
             /\ bulldozerSprite.position = ToSprite(Pos(2, 1))
             /\ AllEndPositionsFilled(level, crateSprites))

\* the push of the scenario has settled and a completion check has marked
\* the level complete
C20_Witness ==
    /\ level = ScenarioLevel
    /\ hist.last = "pushed"
    /\ hist.key = "ArrowRight"
    /\ hist.pre.pos = Pos(1, 1)
    /\ hist.pre.dir = Down
    /\ moveCount = 1
    /\ Settled
    /\ CratePositions = <<ToSprite(Pos(3, 1))>>
    /\ bulldozerSprite.position = ToSprite(Pos(2, 1))
    /\ isLevelComplete

\* C21: handleMovement with a key that is none of the four arrow keys returns
\* without an error (the call is always possible) and changes neither the
\* bulldozer (position, facing) nor a crate nor the undo record nor the move
\* counter
C21_OtherKeyIsNoOp ==
    /\ [](initialized => ENABLED HandleMovement(OtherKey))
    /\ [][HandleMovement(OtherKey) =>
              /\ bulldozerSprite' = bulldozerSprite
              /\ crateSprites' = crateSprites
              /\ lastMove' = lastMove
              /\ moveCount' = moveCount
              /\ timers' = timers
              /\ isLevelComplete' = isLevelComplete]_vars

\* handleMovement is past its gates, so that only the switch on the key keeps
\* a request from moving the bulldozer to the open cell next to it
C21_Witness ==
    /\ Ready
    /\ OtherKey \notin ArrowKeys
    /\ lastMove # Undefined
    /\ moveCount > 0
    /\ \E key \in ArrowKeys :
          /\ TargetIsOpen(level, RoundPos(bulldozerSprite.position), key)
          /\ CratesOn(CratePositions, Ahead(RoundPos(bulldozerSprite.position), key)) = {}

\* the crates stand on pairwise distinct cells of the field that are no
\* walls, and the bulldozer on a cell of the field that is no wall and holds
\* no crate
WellPlaced(lvl, bulldozerCell, crateCells) ==
    /\ \A i, j \in DOMAIN crateCells : i # j => crateCells[i] # crateCells[j]
    /\ \A i \in DOMAIN crateCells :
          InField(lvl, crateCells[i]) /\ crateCells[i] \notin WallCells(lvl)
    /\ InField(lvl, bulldozerCell)
    /\ bulldozerCell \notin WallCells(lvl)
    /\ \A i \in DOMAIN crateCells : crateCells[i] # bulldozerCell

\* the level being played is level 1 and no other level has been requested
\* (the level number of a session never goes down)
OnFirstLevel ==
    /\ level # Undefined
    /\ level.number = 1
    /\ currentLevelNumber = 1

\* C22: level 1 starts well placed, and as long as nothing but moves, undos
\* and reloads of level 1 have happened every settled state is well placed
C22_SettledStatesWellPlaced ==
    /\ WellPlaced(Level1, Level1.playerStartPosition,
                  [i \in DOMAIN Level1.crates |-> Level1.crates[i].position])
    /\ (OnFirstLevel /\ Settled) =>
          WellPlaced(level, RoundPos(bulldozerSprite.position),
                     [i \in DOMAIN crateSprites |-> RoundPos(crateSprites[i].position)])

\* every coloured crate stands (rounded) on an end position of its colour
EveryColouredCrateHome ==
    \A i \in DOMAIN crateSprites :
        crateSprites[i].color # Null =>
            \E e \in DOMAIN level.endPositions :
                /\ level.endPositions[e].position = RoundPos(crateSprites[i].position)
                /\ level.endPositions[e].color = crateSprites[i].color

\* every end position holds (rounded) a coloured crate
EveryEndPositionHoldsColoured ==
    \A e \in DOMAIN level.endPositions :
        \E i \in DOMAIN crateSprites :
            /\ crateSprites[i].color # Null
            /\ RoundPos(crateSprites[i].position) = level.endPositions[e].position

\* C23: whenever a step marks the level complete, every coloured crate stands
\* on an end position of its colour and every end position holds a coloured
\* crate
C23_CompleteOnlyWhenAllColouredHome ==
    [][(~isLevelComplete /\ isLevelComplete') =>
            (EveryColouredCrateHome /\ EveryEndPositionHoldsColoured)]_vars

\* C24: in every generated level each colour has as many end positions as
\* crates, so validateLevel throws neither its count error nor its colours
\* error on it.
C24_GeneratedColoursBalanced ==
    /\ candidate # Undefined =>
          \A i \in DOMAIN colors :
              CountOf(candidate.endPositions, LAMBDA e : e.color = colors[i])
              = CountOf(candidate.crates, LAMBDA crate : crate.color = colors[i])
    /\ verdict # Undefined =>
          verdict \notin {Thrown(<<"count">>), Thrown(<<"colors">>)}

\* a generated level that validateLevel accepts
C24_GeneratedAndAccepted ==
    /\ candidate # Undefined
    /\ verdict = [ok |-> TRUE]

\* the positions of the items of one kind that lie out of the field, by index
\* from 0
Misplaced(lvl, places) ==
    {i - 1 : i \in {k \in DOMAIN places : ~InField(lvl, places[k])}}

Least(S) == CHOOSE i \in S : \A j \in S : i <= j

\* C25: validateLevel reports the first violated check only, in the order
\* width, height, count of end positions against coloured crates, colour
\* multisets, then the first position out of the field in the order player
\* start, walls, crates, end positions.
C25_FirstViolationReported ==
    verdict # Undefined =>
        LET lvl == candidate
            widthOk == lvl.width \in 1 .. 32
            heightOk == lvl.height \in 1 .. 32
            countOk ==
                Len(lvl.endPositions)
                    = CountOf(lvl.crates, LAMBDA crate : crate.color # Null)
            coloursOk ==
                \A c \in {Red, Blue} :
                    CountOf(lvl.endPositions, LAMBDA e : e.color = c)
                        = CountOf(lvl.crates, LAMBDA crate : crate.color = c)
            checksOk == widthOk /\ heightOk /\ countOk /\ coloursOk
            badWalls == Misplaced(lvl, lvl.walls)
            badCrates ==
                Misplaced(lvl, [i \in DOMAIN lvl.crates |-> lvl.crates[i].position])
            badEnds ==
                Misplaced(lvl, [i \in DOMAIN lvl.endPositions |->
                                    lvl.endPositions[i].position])
            startOk == InField(lvl, lvl.playerStartPosition)
        IN  /\ ~widthOk => verdict = Thrown(<<"width">>)
            /\ widthOk /\ ~heightOk => verdict = Thrown(<<"height">>)
            /\ widthOk /\ heightOk /\ ~countOk => verdict = Thrown(<<"count">>)
            /\ widthOk /\ heightOk /\ countOk /\ ~coloursOk
                    => verdict = Thrown(<<"colors">>)
            /\ checksOk /\ ~startOk
                    => verdict = Thrown(<<"position", "player start", 0>>)
            /\ checksOk /\ startOk /\ badWalls # {}
                    => verdict = Thrown(<<"position", "wall", Least(badWalls)>>)
            /\ checksOk /\ startOk /\ badWalls = {} /\ badCrates # {}
                    => verdict = Thrown(<<"position", "crate", Least(badCrates)>>)
            /\ checksOk /\ startOk /\ badWalls = {} /\ badCrates = {} /\ badEnds # {}
                    => verdict = Thrown(<<"position", "end position", Least(badEnds)>>)

\* the second wall, a crate and an end position lie out of the field and the
\* second wall is the one reported
C25_Witness ==
    /\ verdict = Thrown(<<"position", "wall", 1>>)
    /\ Len(candidate.walls) = 2
    /\ InField(candidate, candidate.walls[1])
    /\ \E i \in DOMAIN candidate.crates :
          ~InField(candidate, candidate.crates[i].position)
    /\ \E i \in DOMAIN candidate.endPositions :
          ~InField(candidate, candidate.endPositions[i].position)

\* a level violating the height check, the count check and a position check
\* is reported for its height
C25_WitnessSeveral ==
    /\ verdict = Thrown(<<"height">>)
    /\ candidate.width \in 1 .. 32
    /\ Len(candidate.endPositions)
          # CountOf(candidate.crates, LAMBDA crate : crate.color # Null)
    /\ ~InField(candidate, candidate.playerStartPosition)

\* C26: in every state where no sprite is moving and the completion flag is
\* set, every end position holds a crate of its colour, also after an undo
\* asked for once the level is complete.
C26_FlagAgreesWithGoals ==
    (isLevelComplete /\ level # Undefined /\ bulldozerSprite # Undefined
        /\ ~SomeSpriteMoving) =>
        \A e \in DOMAIN level.endPositions :
            \E i \in DOMAIN crateSprites :
                /\ RoundPos(crateSprites[i].position) = level.endPositions[e].position
                /\ crateSprites[i].color = level.endPositions[e].color

\* C27: when an accepted move sends a matching crate to every end position and
\* no key is pressed after it, the level is eventually marked complete, given
\* that frames keep coming and the timer fires.
C27_SolvedLeadsToComplete == SolvingMoveMade ~> isLevelComplete

\* every end position holds a crate of its colour
EveryEndPositionCovered ==
    \A e \in DOMAIN level.endPositions :
        \E i \in DOMAIN crateSprites :
            /\ RoundPos(crateSprites[i].position) = level.endPositions[e].position
            /\ crateSprites[i].color = level.endPositions[e].color

\* C28: in a state where no sprite is moving and every end position (there is
\* one at least) is covered by a crate of its colour, no arrow key is accepted
\* as a move: the bulldozer does not start to move and the move counter stays,
\* also between the end of the solving move's animation and its completion
\* check.
C28_NoMoveOnceSolved ==
    [][\A key \in ArrowKeys :
        (/\ HandleMovement(key)
         /\ level # Undefined
         /\ bulldozerSprite # Undefined
         /\ ~SomeSpriteMoving
         /\ level.endPositions # <<>>
         /\ EveryEndPositionCovered)
            => /\ moveCount' = moveCount
               /\ ~bulldozerSprite'.isMoving]_vars

\* C29: the completion flag, once set, is cleared only by the initializeLevel
\* of a level response, and onLevelComplete runs at most once between two of
\* them, however many completion checks fire: it runs only on the step that
\* sets the flag.
C29_FlagMonotoneCompleteOnce ==
    /\ [](completions <= 1)
    /\ [][/\ (isLevelComplete /\ ~isLevelComplete') =>
                \E n \in LevelNumbers : LoadResponse(n)
          /\ (completions' > completions) =>
                (~isLevelComplete /\ isLevelComplete')
          /\ (isLevelComplete /\ isLevelComplete') =>
                (completions' = completions /\ levelCompleteSprite' = levelCompleteSprite)]_vars

\* level 1 is complete after two accepted moves whose two completion checks
\* have both fired
C29_Witness ==
    /\ level # Undefined
    /\ level.number = 1
    /\ isLevelComplete
    /\ completions = 1
    /\ moveCount = 2
    /\ timers = 0
    /\ lastMove # Undefined

\* C30: the step of a level response leaves the session in the level's initial
\* state: the bulldozer on playerStartPosition facing Down, one crate sprite
\* for each crate of the level, in the same order, on the crate's position and
\* of its colour, the move counter 0, the completion flag false and no sprite
\* animating.
C30_LoadGivesInitialState ==
    [][\A n \in LevelNumbers :
        LoadResponse(n) =>
            /\ level' = LevelStore[n]
            /\ bulldozerSprite'.position = ToSprite(level'.playerStartPosition)
            /\ bulldozerSprite'.direction = Down
            /\ ~bulldozerSprite'.isMoving
            /\ Len(crateSprites') = Len(level'.crates)
            /\ \A i \in DOMAIN crateSprites' :
                  /\ crateSprites'[i].position = ToSprite(level'.crates[i].position)
                  /\ crateSprites'[i].color = level'.crates[i].color
                  /\ ~crateSprites'[i].isMoving
            /\ moveCount' = 0
            /\ ~isLevelComplete'
            /\ ~levelCompleteSprite']_vars

\* level 1 has just been loaded again after a push was made in the session
C30_Witness ==
    /\ hist.last = "load"
    /\ level.number = 1
    /\ lastMove # Undefined
    /\ "cratePos" \in DOMAIN lastMove
    /\ moveCount = 0
    /\ ~isLevelComplete
    /\ bulldozerSprite.position = ToSprite(level.playerStartPosition)
    /\ \A i \in DOMAIN crateSprites :
          crateSprites[i].position = ToSprite(level.crates[i].position)

\* C31: once the component has started, the current level number changes only
\* by a next-level request made while the level being played is the one of
\* that number and is marked complete, and it grows by exactly one: no level
\* that was never completed is skipped.
C31_NextLevelOnlyAfterCompletion ==
    [][(initialized /\ currentLevelNumber' # currentLevelNumber) =>
            /\ currentLevelNumber' = currentLevelNumber + 1
            /\ isLevelComplete
            /\ level # Undefined
            /\ level.number = currentLevelNumber]_vars

\* C32: whenever no level request is in flight and a level is being played,
\* that level is the one named by currentLevelNumber and by the stored level
\* number, in whatever order the responses to overlapping requests arrived.
C32_PlayedLevelIsCurrent ==
    (initialized /\ InFlightTotal = 0 /\ level # Undefined) =>
        /\ level.number = currentLevelNumber
        /\ storage = [value |-> currentLevelNumber]

\* C33: a failed level request leaves the session as if it had never been
\* made: the step of the failure changes neither the level, the sprites, the
\* move counter, the completion flag, the current level number nor the stored
\* number, and once every request of a session whose requests all fail has
\* failed, the current and the stored number are those of the level that is
\* still being played.
C33_FailedRequestChangesNothing ==
    /\ [](InFlightTotal = 0 =>
            /\ currentLevelNumber = level.number
            /\ storage = [value |-> level.number])
    /\ [][\A n \in LevelNumbers :
            LoadError(n) =>
                UNCHANGED <<level, bulldozerSprite, crateSprites, moveCount,
                            isLevelComplete, levelCompleteSprite,
                            currentLevelNumber, storage>>]_vars

\* C34: on a level with no end positions the predicate of the completion check
\* is true whatever the crates do, a completion check that finds the level
\* not yet complete marks it complete, and the level is not complete as long
\* as no key has been handled since it was loaded.
C34_NoEndPositionsCompleteOnFirstMove ==
    /\ []((level # Undefined /\ level.endPositions = <<>> /\ hist.last = "load")
            => ~isLevelComplete)
    /\ [][(level # Undefined /\ level.endPositions = <<>>) =>
            /\ AllEndPositionsFilled(level, crateSprites)
            /\ (CheckLevelCompletion /\ ~isLevelComplete) => isLevelComplete']_vars

\* the bulldozer sprite and the crate sprites
AllSprites == {bulldozerSprite} \cup {crateSprites[i] : i \in DOMAIN crateSprites}

\* the cells of the level and those around it
CellsAround == {Pos(px, py) : px \in -1 .. level.width, py \in -1 .. level.height}

\* what one update of deltaTime makes of a moving sprite: it goes on towards
\* the same target while the deltas sum to less than moveDuration, and stops on
\* the target once they reach it
AdvancesOrLands(before, after, deltaTime) ==
    before.isMoving =>
        IF before.moveProgress + deltaTime >= moveDuration
        THEN ~after.isMoving /\ after.position = before.moveEndPos
        ELSE /\ after.isMoving
             /\ after.moveProgress = before.moveProgress + deltaTime
             /\ after.moveEndPos = before.moveEndPos

====
